---- MODULE Spec2Model ----
(***************************************************************************)
(* A model of chatbot.py: the ordered rule registry (ChatResponder), the   *)
(* group-chat dispatcher with its silence / timeout / startup gates, and   *)
(* the connect-poll-signoff-reconnect run loop of ChatBot.__init__.        *)
(*                                                                         *)
(* Text is a sequence of lines, a line a sequence of whitespace separated  *)
(* tokens.  Time is counted in minutes.  Python's None is the empty set    *)
(* and a present value x is {x}.                                           *)
(***************************************************************************)
EXTENDS Integers, Sequences, FiniteSets, TLC

\* ------------------------------------------------------------------ bounds
\* the clock is read at the minutes 0..MaxEarly and then, a timeout later,
\* at the minutes up to MaxTime
MaxEarly == 2
MaxTime == 12
\* rules registered on the generic registry in the resolver specification
MaxRules == 2

\* ------------------------------------------------------- program constants
\* datetime.timedelta(minutes=1) of the startup guard
GraceMinutes == 1
\* datetime.timedelta(minutes=10) of set_timeout
TimeoutMinutes == 10

None == {}
Some(x) == {x}
The(opt) == CHOOSE x \in opt : TRUE

\* ---------------------------------------------------------------- strings
\* str.lower() on the tokens the model uses
Lower(tok) ==
  CASE tok = "Zbot" -> "zbot"
    [] tok = "Hello" -> "hello"
    [] tok = "Alice_Desktop" -> "alice_desktop"
    [] tok = "Bob" -> "bob"
    [] tok = "Smith" -> "smith"
    [] tok = "Troll" -> "troll"
    [] OTHER -> tok

LowerLine(line) == [i \in 1..Len(line) |-> Lower(line[i])]
LowerText(text) == [i \in 1..Len(text) |-> LowerLine(text[i])]

\* a token made of word characters (\w); the others are punctuation
IsWord(tok) == tok \notin {"?", "!"}

\* tok starts with the characters of prefix
StartsWith(tok, prefix) ==
  \/ tok = prefix
  \/ <<prefix, tok>> \in {<<"okay", "okays">>, <<"quiet", "quietly">>}

\* Python truthiness of an optional string: None and '' are false
Truthy(opt) == opt # None /\ opt # Some(<<>>)

\* --------------------------------------------------------------- patterns
\* the regular expressions of the program, by shape:
\*   bol_word   ^(p1|p2)\b      a line starts with one of the phrases
\*   bol_prefix ^prefix         a line starts with the characters
\*   word       \b(p1|p2)\b     one of the phrases occurs as whole words
QuietExp == [kind |-> "bol_word", alts |-> {<<"quiet">>, <<"be", "quiet">>}]
OkayExp == [kind |-> "bol_prefix", prefix |-> "okay"]
TimeoutExp ==
  [kind |-> "word", alts |-> {<<"enough">>, <<"take", "a", "break">>, <<"hush">>}]

\* r'\b(%s)\b' % '|'.join(names); no name leaves r'\b()\b', which matches
\* at any word boundary
AddressExp(names) ==
  IF names = <<>>
    THEN [kind |-> "boundary"]
    ELSE [kind |-> "word", alts |-> {<<names[i]>> : i \in 1..Len(names)}]

PhraseAt(line, i, phrase) ==
  /\ i + Len(phrase) - 1 <= Len(line)
  /\ \A k \in 1..Len(phrase) : line[i + k - 1] = phrase[k]

\* re.search(exp, text, re.M) when multiline, re.search(exp, text) otherwise:
\* without re.M the anchor ^ matches at the start of the text only
Search(exp, text, multiline) ==
  LET bols == IF multiline THEN 1..Len(text) ELSE {i \in 1..Len(text) : i = 1}
  IN CASE exp.kind = "bol_word" ->
            \E l \in bols : \E p \in exp.alts : PhraseAt(text[l], 1, p)
       [] exp.kind = "bol_prefix" ->
            \E l \in bols : Len(text[l]) > 0 /\ StartsWith(text[l][1], exp.prefix)
       [] exp.kind = "word" ->
            \E l \in 1..Len(text) : \E i \in 1..Len(text[l]) :
              \E p \in exp.alts : PhraseAt(text[l], i, p)
       [] exp.kind = "boundary" ->
            \E l \in 1..Len(text) : \E i \in 1..Len(text[l]) : IsWord(text[l][i])
       [] OTHER -> FALSE

\* ------------------------------------------------------------- the bot
\* class attributes: sign_off = 'brb'
sign_off == <<"brb">>

\* me_responds.yaml and generic_responds.yaml as deployed: ordered
\* (expression, response) pairs; "{0}" is the slot of str.format
MeRespondsFile ==
  << [expression |-> [kind |-> "word", alts |-> {<<"hello">>}],
      response |-> <<"hi ", "{0}", "!">>],
     [expression |-> [kind |-> "word", alts |-> {<<"hello">>, <<"okay">>}],
      response |-> <<"what's up, ", "{0}", "?">>] >>

GenericRespondsFile ==
  << [expression |-> [kind |-> "word", alts |-> {<<"hello">>}],
      response |-> <<"hi ", "{0}", "!">>] >>

\* response.format(nicefrom)
Format(response, name) ==
  [i \in 1..Len(response) |-> IF response[i] = "{0}" THEN name ELSE response[i]]

\* re.sub(r'\s.*$', '', msgfrom): the identifier cut at its first whitespace
NiceFrom(msgfrom) == IF msgfrom = <<>> THEN "" ELSE msgfrom[1]

\* what a handler or the dispatcher hands back: the bot after it, the
\* messages given to client.send, the rules and tables consulted on the way
Ret(self, sent, calls) == [self |-> self, sent |-> sent, calls |-> calls]

\* update_message_state
update_message_state(self) ==
  IF Truthy(self.curr_message)
    THEN [self EXCEPT !.prev_message = self.curr_message, !.curr_message = None]
    ELSE self

\* send_to_chat: one client.send, then the housekeeping
send_to_chat(self, message, calls) ==
  Ret(update_message_state(self), <<message>>, calls)

\* the three control rules registered on me_responder
start_silence(self, m, text, user) ==
  [self |-> [self EXCEPT !.silent = TRUE],
   out |-> Some(<<"sorry. i'll put a lid on it.">>)]

\* end_silence answering with the name as it was given
end_silence_keeps_case(self, m, text, user) ==
  [self |-> [self EXCEPT !.silent = FALSE, !.timeout = None],
   out |-> Some(<<"thanks, ", user>>)]

\* end_silence flipping the flag instead of clearing it
end_silence_toggles(self, m, text, user) ==
  [self |-> [self EXCEPT !.silent = ~self.silent, !.timeout = None],
   out |-> Some(<<"thanks, ", Lower(user)>>)]

end_silence(self, m, text, user) ==
  [self |-> [self EXCEPT !.silent = FALSE, !.timeout = None],
   out |-> Some(<<"thanks, ", Lower(user)>>)]

set_timeout(self, m, text, user, t) ==
  [self |-> [self EXCEPT !.timeout = Some(t + TimeoutMinutes)],
   out |-> Some(<<"i'm gonna stay quiet for a bit.">>)]

\* the decorator calls, in the order the class body runs them
me_responder ==
  << [expressions |-> <<QuietExp>>, only_for |-> None,
      func |-> [name |-> "start_silence"]],
     [expressions |-> <<OkayExp>>, only_for |-> None,
      func |-> [name |-> "end_silence"]],
     [expressions |-> <<TimeoutExp>>, only_for |-> None,
      func |-> [name |-> "set_timeout"]] >>

\* response(bot, m, text, user): a bot method, or a handler drawn for the
\* resolver specification, which answers by the expression that matched
Call(func, self, m, text, user, t) ==
  CASE func.name = "start_silence" -> start_silence(self, m, text, user)
    [] func.name = "end_silence" -> end_silence(self, m, text, user)
    [] func.name = "set_timeout" -> set_timeout(self, m, text, user, t)
    [] OTHER -> [self |-> self, out |-> func.returns[m.re]]

\* ------------------------------------------------------------ the resolver
\* get_response line 43: the rule has no addressee
Generic(response) == response.only_for = None

\* get_response returning whatever the first matching handler gave
GaveTextAlways(r) == TRUE

\* get_response going on to the next rule whatever the handler gave back
GaveTextNever(r) == FALSE

\* get_response line 50: only return if the match gave back text
GaveText(r) == Truthy(r)

RECURSIVE ScanFrom(_, _, _, _, _, _, _, _)
\* the two nested loops of get_response, resumed at rule i, expression j
ScanFrom(registry, i, j, self, text, user, t, calls) ==
  IF i > Len(registry)
    THEN [self |-> self, out |-> None, calls |-> calls]
  ELSE IF ~Generic(registry[i]) \/ j > Len(registry[i].expressions)
    THEN ScanFrom(registry, i + 1, 1, self, text, user, t, calls)
  ELSE IF ~Search(registry[i].expressions[j], text, TRUE)
    THEN ScanFrom(registry, i, j + 1, self, text, user, t, calls)
  ELSE LET exp == registry[i].expressions[j]
           r == Call(registry[i].func, self, [re |-> exp], text, user, t)
           c == Append(calls, [rule |-> i, exp |-> j,
                               func |-> registry[i].func.name, out |-> r.out])
       IN IF GaveText(r.out)
            THEN [self |-> r.self, out |-> r.out, calls |-> c]
            ELSE ScanFrom(registry, i, j + 1, r.self, text, user, t, c)

get_response(registry, self, text, user, t) ==
  ScanFrom(registry, 1, 1, self, text, user, t, <<>>)

\* a personal mode that takes any rule with an addressee
PersonalAny(response, target_user) == response.only_for \notin {None, Some("")}

\* get_personal_response line 57: the rule has an addressee and it is the
\* target user, compared in lower case
Personal(response, target_user) ==
  /\ response.only_for \notin {None, Some("")}
  /\ Lower(The(response.only_for)) = Lower(target_user)

RECURSIVE ScanPersonalFrom(_, _, _, _, _, _, _, _, _)
\* the two nested loops of get_personal_response, resumed at rule i,
\* expression j
ScanPersonalFrom(registry, i, j, self, text, user, target_user, t, calls) ==
  IF i > Len(registry)
    THEN [self |-> self, out |-> None, calls |-> calls]
  ELSE IF ~Personal(registry[i], target_user) \/ j > Len(registry[i].expressions)
    THEN ScanPersonalFrom(registry, i + 1, 1, self, text, user, target_user, t, calls)
  ELSE IF ~Search(registry[i].expressions[j], text, TRUE)
    THEN ScanPersonalFrom(registry, i, j + 1, self, text, user, target_user, t, calls)
  ELSE LET exp == registry[i].expressions[j]
           r == Call(registry[i].func, self, [re |-> exp], text, user, t)
           c == Append(calls, [rule |-> i, exp |-> j,
                               func |-> registry[i].func.name, out |-> r.out])
       IN IF GaveText(r.out)
            THEN [self |-> r.self, out |-> r.out, calls |-> c]
            ELSE ScanPersonalFrom(registry, i, j + 1, r.self, text, user,
                                  target_user, t, c)

get_personal_response(registry, self, text, user, target_user, t) ==
  ScanPersonalFrom(registry, 1, 1, self, text, user, target_user, t, <<>>)

\* ---------------------------------------------------------- the dispatcher
\* the startup guard still discarding at the minute it ends
InGraceInclusive(self, t) == self.startup # None /\ The(self.startup) >= t

\* lines 177-178: the startup guard is set and still in the future
InGrace(self, t) == self.startup # None /\ The(self.startup) > t

\* line 196: msgfrom.lower() in self.ignore_from
Ignored(self, msgfrom) == LowerLine(msgfrom) \in self.ignore_from

\* line 204: the lowercased body names the bot
Addressed(self, msgtext) == Search(AddressExp(self.my_names), msgtext, FALSE)

RECURSIVE FirstHit(_, _, _)
\* the for loop over a response table: index of the first entry whose
\* expression is found in the text, 0 when the loop runs out
FirstHit(table, k, msgtext) ==
  IF k > Len(table) THEN 0
  ELSE IF Search(table[k].expression, msgtext, FALSE) THEN k
  ELSE FirstHit(table, k + 1, msgtext)

\* the gates with the generic table consulted once they are passed
GatesThenTable(self, msgtext, nicefrom, t, calls) ==
  IF self.silent
    THEN Ret(update_message_state(self), <<>>, calls)
  ELSE IF self.timeout # None /\ The(self.timeout) > t
    THEN Ret(update_message_state(self), <<>>, calls)
  ELSE LET s1 == [self EXCEPT !.timeout = None]
           table == The(self.chat_responds)
           k == FirstHit(table, 1, msgtext)
           c == Append(calls, "chat_responds")
       IN IF k > 0
            THEN send_to_chat(s1, Format(table[k].response, nicefrom), c)
            ELSE Ret(s1, <<>>, c)

\* the gates with the timeout still held at the minute it expires
GatesLateExpiry(self, msgtext, nicefrom, t, calls) ==
  IF self.silent
    THEN Ret(update_message_state(self), <<>>, calls)
  ELSE IF self.timeout # None
    THEN IF The(self.timeout) >= t
           THEN Ret(update_message_state(self), <<>>, calls)
           ELSE Ret([self EXCEPT !.timeout = None], <<>>, calls)
  ELSE Ret(self, <<>>, calls)

\* the gates with an expired timeout also ending the silence
GatesExpiryUnsilences(self, msgtext, nicefrom, t, calls) ==
  IF self.timeout # None /\ The(self.timeout) <= t
    THEN Ret([self EXCEPT !.timeout = None, !.silent = FALSE], <<>>, calls)
  ELSE IF self.silent \/ self.timeout # None
    THEN Ret(update_message_state(self), <<>>, calls)
  ELSE Ret(self, <<>>, calls)

\* lines 219-229: what follows the addressed block.  Neither the rule list
\* responder nor the table chat_responds is read here and nothing is sent.
Gates(self, msgtext, nicefrom, t, calls) ==
  IF self.silent
    THEN Ret(update_message_state(self), <<>>, calls)
  ELSE IF self.timeout # None
    THEN IF The(self.timeout) > t
           THEN Ret(update_message_state(self), <<>>, calls)
           ELSE Ret([self EXCEPT !.timeout = None], <<>>, calls)
  ELSE Ret(self, <<>>, calls)

\* lines 215-217: the scan of me_responds, then on to the gates
TableReply(self, msgtext, nicefrom, t, calls) ==
  LET table == The(self.me_responds)
      k == FirstHit(table, 1, msgtext)
      c == Append(calls, "me_responds")
  IN IF k > 0
       THEN send_to_chat(self, Format(table[k].response, nicefrom), c)
       ELSE Gates(self, msgtext, nicefrom, t, c)

\* the addressed branch going on to the table after a rule has answered
AddressedBlockSendsOn(self, msgtext, nicefrom, t) ==
  LET g == get_response(me_responder, self, msgtext, nicefrom, t)
      c == <<"me_responder">> \o [i \in 1..Len(g.calls) |-> g.calls[i].func]
      a == send_to_chat(g.self, The(g.out), c)
      b == TableReply(a.self, msgtext, nicefrom, t, c)
  IN IF Truthy(g.out)
       THEN Ret(b.self, a.sent \o b.sent, b.calls)
     ELSE IF g.self.silent
       THEN Ret(update_message_state(g.self), <<>>, c)
     ELSE TableReply(g.self, msgtext, nicefrom, t, c)

\* the addressed branch without the test of self.silent at line 211
AddressedBlockNoSilentTest(self, msgtext, nicefrom, t) ==
  LET g == get_response(me_responder, self, msgtext, nicefrom, t)
      c == <<"me_responder">> \o [i \in 1..Len(g.calls) |-> g.calls[i].func]
  IN IF Truthy(g.out)
       THEN send_to_chat(g.self, The(g.out), c)
       ELSE TableReply(g.self, msgtext, nicefrom, t, c)

\* the addressed branch reading the me_responds table before the rules
AddressedBlockTableFirst(self, msgtext, nicefrom, t) ==
  LET table == The(self.me_responds)
      k == FirstHit(table, 1, msgtext)
      g == get_response(me_responder, self, msgtext, nicefrom, t)
      c == <<"me_responder">> \o [i \in 1..Len(g.calls) |-> g.calls[i].func]
  IN IF ~self.silent /\ k > 0
       THEN send_to_chat(self, Format(table[k].response, nicefrom), <<"me_responds">>)
     ELSE IF Truthy(g.out)
       THEN send_to_chat(g.self, The(g.out), c)
     ELSE IF g.self.silent
       THEN Ret(update_message_state(g.self), <<>>, c)
     ELSE Gates(g.self, msgtext, nicefrom, t, Append(c, "me_responds"))

\* the addressed branch held back as a whole by a timeout that still runs
AddressedBlockTimeoutMutes(self, msgtext, nicefrom, t) ==
  LET g == get_response(me_responder, self, msgtext, nicefrom, t)
      c == <<"me_responder">> \o [i \in 1..Len(g.calls) |-> g.calls[i].func]
  IN IF self.timeout # None /\ The(self.timeout) > t
       THEN Ret(update_message_state(self), <<>>, <<>>)
     ELSE IF Truthy(g.out)
       THEN send_to_chat(g.self, The(g.out), c)
     ELSE IF g.self.silent
       THEN Ret(update_message_state(g.self), <<>>, c)
     ELSE TableReply(g.self, msgtext, nicefrom, t, c)

\* lines 206-217: the body of the addressed branch
AddressedBlock(self, msgtext, nicefrom, t) ==
  LET g == get_response(me_responder, self, msgtext, nicefrom, t)
      c == <<"me_responder">> \o [i \in 1..Len(g.calls) |-> g.calls[i].func]
  IN IF Truthy(g.out)
       THEN send_to_chat(g.self, The(g.out), c)
     ELSE IF g.self.silent
       THEN Ret(update_message_state(g.self), <<>>, c)
     ELSE TableReply(g.self, msgtext, nicefrom, t, c)

\* handle_groupchat_message at time t
handle_groupchat_message(self, message, t) ==
  IF InGrace(self, t)
    THEN Ret(self, <<>>, <<>>)
  ELSE LET s1 == [self EXCEPT !.startup = None]
       IN IF ~message.decodable
            THEN Ret(s1, <<>>, <<>>)
          ELSE LET msgfrom == message.from
                   nicefrom == NiceFrom(msgfrom)
                   msgtext == LowerText(message.body)
                   s2 == [s1 EXCEPT !.curr_message = Some(msgtext)]
               IN IF Ignored(s2, msgfrom)
                    THEN Ret(s2, <<>>, <<>>)
                  ELSE IF Addressed(s2, msgtext)
                    THEN AddressedBlock(s2, msgtext, nicefrom, t)
                  ELSE Gates(s2, msgtext, nicefrom, t, <<>>)

\* message_callback: groupchat goes to the dispatcher; for "chat" the class
\* has no handle_private_message, so the call raises AttributeError; any
\* other type is left alone
message_callback(self, message, t) ==
  LET r == IF message.typ = "groupchat"
             THEN handle_groupchat_message(self, message, t)
             ELSE Ret(self, <<>>, <<>>)
  IN [self |-> r.self, sent |-> r.sent, calls |-> r.calls,
      raised |-> message.typ = "chat"]

\* ------------------------------------------------------------------ state
VARIABLES
  bot,        \* the ChatBot instance: its attributes
  pc,         \* where ChatBot.__init__ stands in its run loop
  now,        \* datetime.datetime.now(), in minutes
  responder,  \* the module-level generic ChatResponder
  resolved,   \* the last responder.get_response call: None before the first
  last,       \* history: the step taken last
  pre,        \* history: the bot before that step
  ev,         \* history: the event that step dispatched, if any
  sent,       \* history: what that step gave to client.send
  calls,      \* history: the rules and tables that step consulted
  intr        \* history: None, or what was sent since the interrupt

vars == <<bot, pc, now, responder, resolved, last, pre, ev, sent, calls, intr>>

\* ----------------------------------------------------------------- inputs
Alice == <<"Alice_Desktop">>
BobSmith == <<"Bob", "Smith">>
Troll == <<"Troll">>

Bodies ==
  { <<<<"zbot", "quiet">>>>,
    <<<<"quiet", "zbot">>>>,
    <<<<"okay", "zbot">>>>,
    <<<<"zbot", "okay">>>>,
    <<<<"hush", "zbot">>>>,
    <<<<"Hello", "zbot">>>>,
    <<<<"hello", "everyone">>>>,
    <<<<"quiet", "zbot">>, <<"okay", "hush">>>>,
    <<<<"okay", "hush", "zbot">>>> }

GroupMessage(from, body) ==
  [typ |-> "groupchat", from |-> from, body |-> body, decodable |-> TRUE]

\* the stanzas client.Process hands to message_callback
Events ==
  {GroupMessage(Alice, b) : b \in Bodies}
    \cup {GroupMessage(BobSmith, <<<<"Hello", "zbot">>>>),
          GroupMessage(Troll, <<<<"Hello", "zbot">>>>)}
    \cup {[typ |-> "groupchat", from |-> Alice, body |-> <<>>, decodable |-> FALSE],
          [typ |-> "chat", from |-> Alice, body |-> <<<<"Hello", "zbot">>>>,
           decodable |-> TRUE],
          [typ |-> "normal", from |-> Alice, body |-> <<<<"Hello", "zbot">>>>,
           decodable |-> TRUE]}

\* the configurations of a concrete bot: my_names, ignore_from
NameChoices == {<<>>, <<"zbot">>}
IgnoreFrom == {<<"troll">>}

\* the class attributes of lines 75-91, before __init__ has set anything
NewBot(names) ==
  [my_names |-> names, ignore_from |-> IgnoreFrom,
   prev_message |-> Some(<<>>), curr_message |-> Some(<<>>),
   timeout |-> None, silent |-> FALSE,
   stop |-> FALSE, startup |-> None,
   me_responds |-> None, chat_responds |-> None]

\* line 122: connected and joined, about to enter the run loop
Init ==
  /\ bot \in {NewBot(names) : names \in NameChoices}
  /\ pc = "load"
  /\ now = 0
  /\ responder = <<>>
  /\ resolved = None
  /\ last = "init"
  /\ pre = None
  /\ ev = None
  /\ sent = <<>>
  /\ calls = <<>>
  /\ intr = None

\* history kept by a step of the run loop that dispatches no event
Note(step, out) ==
  /\ last' = step
  /\ pre' = Some(bot)
  /\ ev' = None
  /\ sent' = out
  /\ calls' = <<>>
  /\ intr' = IF intr = None THEN None ELSE Some(The(intr) \o out)

\* lines 124-132: restart the startup guard, load both tables
LoadTables ==
  /\ pc = "load"
  /\ bot' = [bot EXCEPT !.startup = Some(now + GraceMinutes),
                        !.me_responds = Some(MeRespondsFile),
                        !.chat_responds = Some(GenericRespondsFile)]
  /\ pc' = "poll"
  /\ Note("load", <<>>)
  /\ UNCHANGED <<now, responder, resolved>>

\* step, client.Process(1) delivering one stanza to message_callback; an
\* exception other than KeyboardInterrupt leaves __init__ unhandled
StepMessage(message) ==
  /\ pc = "poll"
  /\ LET r == message_callback(bot, message, now)
     IN /\ bot' = r.self
        /\ sent' = r.sent
        /\ calls' = r.calls
        /\ pc' = IF r.raised THEN "crashed" ELSE "poll"
  /\ last' = "message"
  /\ pre' = Some(bot)
  /\ ev' = Some(message)
  /\ UNCHANGED <<now, responder, resolved, intr>>

\* step swallowing the interrupt without setting stop
StepInterruptNoStop ==
  /\ pc = "poll"
  /\ pc' = "signoff"
  /\ last' = "interrupt"
  /\ pre' = Some(bot)
  /\ ev' = None
  /\ sent' = <<>>
  /\ calls' = <<>>
  /\ intr' = Some(<<>>)
  /\ UNCHANGED <<bot, now, responder, resolved>>

\* step, KeyboardInterrupt while polling: stop is set, step returns False
StepInterrupt ==
  /\ pc = "poll"
  /\ bot' = [bot EXCEPT !.stop = TRUE]
  /\ pc' = "signoff"
  /\ last' = "interrupt"
  /\ pre' = Some(bot)
  /\ ev' = None
  /\ sent' = <<>>
  /\ calls' = <<>>
  /\ intr' = Some(<<>>)
  /\ UNCHANGED <<now, responder, resolved>>

\* step, client.Process(1) returning nothing: the link is gone
StepDisconnect ==
  /\ pc = "poll"
  /\ pc' = "signoff"
  /\ Note("disconnect", <<>>)
  /\ UNCHANGED <<bot, now, responder, resolved>>

\* line 137, and the two tests of self.stop that follow it
SignOff ==
  /\ pc = "signoff"
  /\ LET r == send_to_chat(bot, sign_off, <<>>)
     IN /\ bot' = r.self
        /\ Note("signoff", r.sent)
  /\ pc' = IF bot.stop THEN "done" ELSE "reconnect"
  /\ UNCHANGED <<now, responder, resolved>>

\* a reconnect that also puts the conversation state back to its defaults
ReconnectResets ==
  /\ pc = "reconnect"
  /\ bot' = [bot EXCEPT !.startup = Some(now + GraceMinutes),
                        !.silent = FALSE, !.timeout = None,
                        !.prev_message = Some(<<>>), !.curr_message = Some(<<>>)]
  /\ pc' = "load"
  /\ Note("reconnect", <<>>)
  /\ UNCHANGED <<now, responder, resolved>>

\* a reconnect that goes straight back to polling, the tables not reloaded
ReconnectSkipsReload ==
  /\ pc = "reconnect"
  /\ bot' = [bot EXCEPT !.startup = Some(now + GraceMinutes)]
  /\ pc' = "poll"
  /\ Note("reconnect", <<>>)
  /\ UNCHANGED <<now, responder, resolved>>

\* lines 142-144: restart the startup guard, reconnectAndReauth
Reconnect ==
  /\ pc = "reconnect"
  /\ bot' = [bot EXCEPT !.startup = Some(now + GraceMinutes)]
  /\ pc' = "load"
  /\ Note("reconnect", <<>>)
  /\ UNCHANGED <<now, responder, resolved>>

\* the minutes at which the clock is read
Instants ==
  {t \in 0..MaxTime : t <= MaxEarly \/ t >= GraceMinutes + TimeoutMinutes}

\* time goes by, up to the next reading of the clock
Tick ==
  /\ pc \notin {"done", "crashed"}
  /\ \E t \in Instants : t > now
  /\ now' = CHOOSE t \in Instants : t > now /\ \A u \in Instants : u > now => t <= u
  /\ Note("tick", <<>>)
  /\ UNCHANGED <<bot, pc, responder, resolved>>

Next ==
  \/ LoadTables
  \/ \E message \in Events : StepMessage(message)
  \/ StepInterrupt
  \/ StepDisconnect
  \/ SignOff
  \/ Reconnect
  \/ Tick

\* the run loop is sequential code: once the poll loop has ended the
\* sign-off is sent
Fairness == WF_vars(SignOff)

FairSpec == Init /\ [][Next]_vars /\ Fairness

Spec == Init /\ [][Next]_vars

\* ------------------------------------------- the registry, on its own
\* expressions and texts for rules registered on the generic registry
HelloExp == [kind |-> "word", alts |-> {<<"hello">>}]
ByeExp == [kind |-> "bol_word", alts |-> {<<"bye">>}]

ExpressionChoices ==
  {<<HelloExp>>, <<ByeExp>>, <<HelloExp, ByeExp>>, <<ByeExp, HelloExp>>}

ResolverTexts ==
  { <<<<"hello">>>>,
    <<<<"bye">>>>,
    <<<<"well", "hello">>, <<"bye">>>>,
    <<<<"well", "bye">>>> }

HandlerNames == <<"h1", "h2", "h3", "h4">>

\* what a registered handler gives back for a match of each expression:
\* its own text, '' or None
ReturnChoices(name) ==
  { [e \in {HelloExp, ByeExp} |-> Some(<<name>>)],
    [e \in {HelloExp, ByeExp} |-> IF e = HelloExp THEN Some(<<>>) ELSE Some(<<name>>)],
    [e \in {HelloExp, ByeExp} |-> None] }

\* ChatResponder.__call__: the decorator stores the expressions and the
\* addressee on the function and appends it to the list
Register(expr, only_respond_to, returns) ==
  /\ resolved = None
  /\ Len(responder) < MaxRules
  /\ responder' = Append(responder,
                         [expressions |-> expr, only_for |-> only_respond_to,
                          func |-> [name |-> HandlerNames[Len(responder) + 1],
                                    returns |-> returns]])
  /\ UNCHANGED <<bot, pc, now, resolved, last, pre, ev, sent, calls, intr>>

\* responder.get_response(bot, text, user)
Resolve(text, user) ==
  /\ resolved = None
  /\ LET g == get_response(responder, bot, text, user, now)
     IN resolved' = Some([text |-> text, user |-> user, target |-> None,
                          out |-> g.out, calls |-> g.calls])
  /\ UNCHANGED <<bot, pc, now, responder, last, pre, ev, sent, calls, intr>>

\* responder.get_personal_response(bot, text, user, target_user)
ResolvePersonal(text, user, target_user) ==
  /\ resolved = None
  /\ LET g == get_personal_response(responder, bot, text, user, target_user, now)
     IN resolved' = Some([text |-> text, user |-> user,
                          target |-> Some(target_user),
                          out |-> g.out, calls |-> g.calls])
  /\ UNCHANGED <<bot, pc, now, responder, last, pre, ev, sent, calls, intr>>

\* the users a message may be meant for
TargetUsers == {"bob", "Alice_Desktop"}

InitResolve == Init /\ bot.my_names = <<"zbot">>

NextResolve ==
  \/ \E expr \in ExpressionChoices, only_respond_to \in {None, Some("Bob")} :
       \E returns \in ReturnChoices(HandlerNames[Len(responder) + 1]) :
         Register(expr, only_respond_to, returns)
  \/ \E text \in ResolverTexts : Resolve(text, "Alice_Desktop")
  \/ \E text \in ResolverTexts, target_user \in TargetUsers :
       ResolvePersonal(text, "Alice_Desktop", target_user)

SpecResolve == InitResolve /\ [][NextResolve]_vars

\* ================================================================ claims
\* the event of the last step and the bot before it
Msg == The(ev)
Was == The(pre)
MsgText == LowerText(Msg.body)

GroupStep == last = "message" /\ Msg.typ = "groupchat"

\* the message arrived strictly before session start + 1 minute
BeforeGraceEnd == Was.startup # None /\ now < The(Was.startup)

\* the dispatcher got as far as looking for the bot's name in the text
Heard ==
  /\ GroupStep
  /\ ~BeforeGraceEnd
  /\ Msg.decodable
  /\ LowerLine(Msg.from) \notin Was.ignore_from

\* one of the configured names is a whole word of the text
NamedIn(names, text) ==
  \E n \in DOMAIN names : \E l \in DOMAIN text : \E k \in DOMAIN text[l] :
    text[l][k] = names[n]

\* state Active: neither silenced nor under a timeout
Active(b) == ~b.silent /\ b.timeout = None

SorryReply == <<"sorry. i'll put a lid on it.">>
HushReply == <<"i'm gonna stay quiet for a bit.">>

\* ----------------------------------------------------------------------- C1
\* C1: handling one incoming event, of any type, from any sender, with any
\* body and in any conversation state, sends at most one message to the room.
C1_AtMostOneSend == last = "message" => Len(sent) <= 1

\* an event that was answered, with exactly one message
C1_Witness == last = "message" /\ Len(sent) = 1 /\ "end_silence" \in {calls[i] : i \in DOMAIN calls}

\* ----------------------------------------------------------------------- C2
\* the (rule, expression) pairs of the registry that the generic mode tries
\* on the text: rules without addressee, expressions found in the text
Tried(reg, text) ==
  {p \in UNION {{<<i, j>> : j \in 1..Len(reg[i].expressions)} : i \in 1..Len(reg)} :
     /\ reg[p[1]].only_for = None
     /\ Search(reg[p[1]].expressions[p[2]], text, TRUE)}

Earlier(p, q) == p[1] < q[1] \/ (p[1] = q[1] /\ p[2] < q[2])

\* what the handler of rule p[1] gives for a match of its expression p[2]
Given(reg, p) == reg[p[1]].func.returns[reg[p[1]].expressions[p[2]]]

NonEmpty(out) == out # None /\ out # Some(<<>>)

\* C2: rules are tried in registration order and the expressions of a rule in
\* their order; a handler is invoked once for each matching expression until
\* one gives non-empty text, which is the result; a later rule is reached
\* only when every matching expression of every earlier rule gave nothing;
\* the result is absent when no invocation gives text.
C2_FirstRegisteredWins ==
  (resolved # None /\ The(resolved).target = None) =>
    LET r == The(resolved)
        reg == responder
        T == Tried(reg, r.text)
        hits == {p \in T : NonEmpty(Given(reg, p))}
        made == {<<r.calls[i].rule, r.calls[i].exp>> : i \in DOMAIN r.calls}
    IN /\ \A i, j \in DOMAIN r.calls :
            i < j => Earlier(<<r.calls[i].rule, r.calls[i].exp>>,
                             <<r.calls[j].rule, r.calls[j].exp>>)
       /\ made = {p \in T : \A q \in hits : ~Earlier(q, p)}
       /\ \A p \in hits :
            (\A q \in hits : ~Earlier(q, p)) => r.out = Given(reg, p)
       /\ hits = {} => r.out = None
       /\ \A R1, R2 \in 1..Len(reg) :
            (R1 < R2 /\ (\E p \in T : p[1] = R1) /\ (\E p \in T : p[1] = R2)) =>
              /\ (\E p \in hits : p[1] = R1) => \A q \in made : q[1] # R2
              /\ (\E q \in made : q[1] = R2) =>
                   \A p \in T : p[1] = R1 => p \in made /\ ~NonEmpty(Given(reg, p))

\* two rules that both match, the earlier declining on its first expression
\* and answering on its second, so that the later one is never invoked
C2_Witness ==
  /\ resolved # None
  /\ The(resolved).target = None
  /\ Len(responder) = 2
  /\ \A i \in 1..2 : responder[i].only_for = None
  /\ LET r == The(resolved)
     IN /\ Len(r.calls) = 2
        /\ r.calls[1].rule = 1 /\ r.calls[2].rule = 1
        /\ \E p \in Tried(responder, r.text) : p[1] = 2
        /\ r.out = Some(<<"h1">>)

\* ----------------------------------------------------------------------- C3
\* C3 as stated: names ["zbot"], past the grace, Active: "zbot quiet" from
\* Alice_Desktop is answered "sorry. i'll put a lid on it." and silences the
\* bot; then "zbot okay" is answered "thanks, alice_desktop" and the bot is
\* Active again.
C3_AsStated ==
  (Heard /\ Was.my_names = <<"zbot">> /\ Msg.from = Alice) =>
    /\ (Msg.body = <<<<"zbot", "quiet">>>> /\ Active(Was)) =>
         sent = <<SorryReply>> /\ bot.silent
    /\ (Msg.body = <<<<"zbot", "okay">>>> /\ Was.silent) =>
         sent = <<<<"thanks, ", "alice_desktop">>>> /\ Active(bot)

\* C3 amended: the same scenario with the command first on its line:
\* "quiet zbot" is answered "sorry. i'll put a lid on it." and silences the
\* bot; then "okay zbot" is answered "thanks, alice_desktop" and the bot is
\* Active again.
C3_CommandFirst ==
  (Heard /\ Was.my_names = <<"zbot">> /\ Msg.from = Alice) =>
    /\ (Msg.body = <<<<"quiet", "zbot">>>> /\ Active(Was)) =>
         sent = <<SorryReply>> /\ bot.silent
    /\ (Msg.body = <<<<"okay", "zbot">>>> /\ Was.silent) =>
         sent = <<<<"thanks, ", "alice_desktop">>>> /\ Active(bot)

\* the silenced bot hearing "okay zbot" from Alice_Desktop
C3_Witness ==
  /\ Heard /\ Was.my_names = <<"zbot">> /\ Msg.from = Alice
  /\ Msg.body = <<<<"okay", "zbot">>>>
  /\ Was.silent /\ Was.prev_message = Some(<<<<"quiet", "zbot">>>>)
  /\ sent = <<<<"thanks, ", "alice_desktop">>>>
  /\ Active(bot)

\* ----------------------------------------------------------------------- C4
Consulted == {calls[i] : i \in DOMAIN calls}

\* C4: whatever names are configured, the default empty list included, a
\* text that contains none of them as a whole word never reaches the
\* addressed rules (me_responder) nor the me_responds table, so it never
\* invokes the quiet, okay or timeout handler.
C4_UnnamedNeverAddressed ==
  (GroupStep /\ Msg.decodable /\ ~NamedIn(Was.my_names, MsgText)) =>
    Consulted \cap {"me_responder", "me_responds", "start_silence",
                    "end_silence", "set_timeout"} = {}

\* ----------------------------------------------------------------------- C5
\* C5: with at least one name configured, a group message that does not
\* name the bot is never answered, in any conversation state; neither the
\* generic rule list nor the generic_responds table is consulted, even when
\* the table holds an expression that matches the text.
C5_UnaddressedNeverAnswered ==
  (GroupStep /\ Was.my_names # <<>> /\ ~NamedIn(Was.my_names, MsgText)) =>
    /\ sent = <<>>
    /\ Consulted \cap {"responder", "chat_responds"} = {}

\* "hello everyone" heard by an Active bot whose generic table matches it
C5_Witness ==
  /\ Heard /\ Was.my_names = <<"zbot">>
  /\ Msg.body = <<<<"hello", "everyone">>>>
  /\ Active(Was)
  /\ FirstHit(The(Was.chat_responds), 1, MsgText) > 0
  /\ sent = <<>>

\* ----------------------------------------------------------------------- C6
\* the message was heard and names the bot as the dispatcher sees it
HeardAddressed == Heard /\ Search(AddressExp(Was.my_names), MsgText, FALSE)

MatchesQuiet == Search(QuietExp, MsgText, TRUE)
MatchesOkay == Search(OkayExp, MsgText, TRUE)
MatchesTimeout == Search(TimeoutExp, MsgText, TRUE)

\* the reply the me_responds table holds for the text, for this sender
TableAnswer ==
  LET table == The(Was.me_responds)
      hits == {k \in DOMAIN table : Search(table[k].expression, MsgText, FALSE)}
      first == CHOOSE k \in hits : \A h \in hits : k <= h
  IN Format(table[first].response, NiceFrom(Msg.from))

MatchesTable ==
  \E k \in DOMAIN The(Was.me_responds) :
    Search(The(Was.me_responds)[k].expression, MsgText, FALSE)

\* while silenced, a text that does not match the resume expression draws
\* no reply from a table and leaves the bot silenced
C6_SilenceHolds ==
  (GroupStep /\ Was.silent /\ Msg.decodable /\ ~MatchesOkay) =>
    /\ Consulted \cap {"me_responds", "chat_responds"} = {}
    /\ sent \in {<<>>, <<SorryReply>>, <<HushReply>>}
    /\ bot.silent

\* C6 as stated: once Silenced, no text that fails the resume expression
\* draws a table reply; after an addressed message matching the resume
\* expression the bot is not silenced, and the very next addressed message
\* that matches a me_responds entry is answered from that table.
C6_AsStated ==
  /\ [](C6_SilenceHolds)
  /\ []((HeardAddressed /\ MatchesOkay) => ~bot.silent)
  /\ [][(HeardAddressed /\ MatchesOkay /\ last' = "message"
            /\ HeardAddressed' /\ MatchesTable') =>
          sent' = <<TableAnswer'>>]_vars

\* C6 amended: once Silenced, no text that fails the resume expression draws
\* a table reply; after an addressed message that matches the resume
\* expression and not the quiet expression the bot is not silenced, and the
\* very next addressed message that matches a me_responds entry and none of
\* the quiet, okay and timeout expressions is answered from that table.
C6_SilenceGate ==
  /\ [](C6_SilenceHolds)
  /\ []((HeardAddressed /\ MatchesOkay /\ ~MatchesQuiet) => ~bot.silent)
  /\ [][(HeardAddressed /\ MatchesOkay /\ ~MatchesQuiet /\ last' = "message"
            /\ HeardAddressed' /\ MatchesTable'
            /\ ~MatchesQuiet' /\ ~MatchesOkay' /\ ~MatchesTimeout') =>
          sent' = <<TableAnswer'>>]_vars

\* a silenced bot asked something its table knows, and keeping quiet
C6_Witness ==
  /\ HeardAddressed /\ Was.silent /\ ~MatchesOkay
  /\ MatchesTable
  /\ sent = <<>> /\ bot.silent

\* the bot resumed by "okay zbot" after having been silenced
C6_WitnessResume ==
  /\ HeardAddressed /\ Was.silent /\ MatchesOkay /\ ~MatchesQuiet
  /\ ~bot.silent

\* ----------------------------------------------------------------------- C7
\* a timeout was pending when the message came, and its expiry had passed
Expired == Was.timeout # None /\ now >= The(Was.timeout)

\* C7 as stated: a message the dispatcher processes at or after the expiry
\* of a timeout clears the timeout, whatever its content, its addressing
\* and the silenced flag.
C7_AsStated == (Heard /\ Expired) => bot.timeout = None

\* C7 amended: a message the dispatcher processes at or after the expiry of
\* a timeout clears the timeout when the bot is not silenced and the message
\* draws no reply from the addressed rules or the me_responds table; a
\* message that arrives silenced and matches no okay expression, or that is
\* answered from the table, leaves the expired timeout as it was.
C7_ExpiryClears ==
  (Heard /\ Expired) =>
    /\ (~bot.silent /\ sent = <<>>) => bot.timeout = None
    /\ (Was.silent /\ ~MatchesOkay /\ ~MatchesTimeout) => bot.timeout = Was.timeout
    /\ (sent # <<>> /\ "me_responds" \in Consulted) => bot.timeout = Was.timeout

\* an unanswered message at the very minute of expiry, clearing the timeout
C7_Witness ==
  /\ Heard /\ Was.timeout = Some(now)
  /\ ~bot.silent /\ sent = <<>>
  /\ bot.timeout = None

\* an expired timeout outliving a message because the bot is silenced
C7_WitnessSilenced ==
  /\ Heard /\ Expired /\ Was.silent
  /\ bot.timeout = Was.timeout

\* ----------------------------------------------------------------------- C8
\* C8: a group message handled strictly before session start + 1 minute is
\* discarded whatever its content and sender: nothing is sent and no field
\* of the bot changes.  The first message handled at or after that minute
\* is processed normally: it clears the startup guard and, when its body
\* decodes, it is recorded as the current message.
C8_StartupGrace ==
  GroupStep =>
    /\ BeforeGraceEnd => (sent = <<>> /\ calls = <<>> /\ bot = Was)
    /\ (Was.startup # None /\ ~BeforeGraceEnd) =>
         /\ bot.startup = None
         /\ Msg.decodable =>
              Some(MsgText) \in {bot.curr_message, bot.prev_message}

\* "quiet zbot" arriving within the grace and changing nothing
C8_Witness ==
  /\ GroupStep /\ BeforeGraceEnd
  /\ Msg.body = <<<<"quiet", "zbot">>>> /\ Msg.from = Alice
  /\ sent = <<>> /\ bot = Was

\* the first message at the minute the grace ends, answered
C8_WitnessAfter ==
  /\ GroupStep /\ Was.startup = Some(now)
  /\ bot.startup = None /\ sent = <<SorryReply>>

C10_Cancellation ==
  /\ [](last = "interrupt" => (bot.stop /\ pc = "signoff"))
  /\ [][intr # None => last' \notin {"message", "reconnect", "load", "interrupt"}]_vars
  /\ [](pc = "done" => intr = Some(<<sign_off>>))
  /\ [](intr # None => Len(The(intr)) <= 1)
  /\ (intr # None ~> pc = "done")

\* the run loop ended after an interrupt, the sign-off sent once
C10_Witness == pc = "done" /\ bot.stop /\ intr = Some(<<sign_off>>)

\* ---------------------------------------------------------------------- C11
\* the rule's addressee is the target user, case apart
MeantFor(rule, target_user) ==
  /\ rule.only_for \notin {None, Some("")}
  /\ \E o \in rule.only_for : Lower(o) = Lower(target_user)

\* the (rule, expression) pairs the personal mode tries on the text
TriedFor(reg, text, target_user) ==
  {p \in UNION {{<<i, j>> : j \in 1..Len(reg[i].expressions)} : i \in 1..Len(reg)} :
     /\ MeantFor(reg[p[1]], target_user)
     /\ Search(reg[p[1]].expressions[p[2]], text, TRUE)}

\* C11: get_response invokes only handlers of rules without addressee, and
\* get_personal_response only handlers of rules whose addressee is the
\* target user compared in lower case; no handler is invoked by the mode it
\* does not belong to, and each mode does invoke the rules that are its own.
C11_AddresseeFilter ==
  resolved # None =>
    LET r == The(resolved)
        reg == responder
        made == {<<r.calls[i].rule, r.calls[i].exp>> : i \in DOMAIN r.calls}
        own == IF r.target = None
                 THEN Tried(reg, r.text)
                 ELSE TriedFor(reg, r.text, The(r.target))
        hits == {p \in own : NonEmpty(Given(reg, p))}
    IN /\ \A p \in made :
            IF r.target = None
              THEN reg[p[1]].only_for = None
              ELSE MeantFor(reg[p[1]], The(r.target))
       /\ made = {p \in own : \A q \in hits : ~Earlier(q, p)}

\* a rule for "Bob" answering a message meant for "bob", next to a generic
\* rule that matches the text too and is left alone
C11_Witness ==
  /\ resolved # None
  /\ Len(responder) = 2
  /\ responder[1].only_for = None /\ responder[2].only_for = Some("Bob")
  /\ LET r == The(resolved)
     IN /\ r.target = Some("bob")
        /\ \E p \in Tried(responder, r.text) : p[1] = 1
        /\ Len(r.calls) = 1 /\ r.calls[1].rule = 2
        /\ r.out = Some(<<"h2">>)

\* ---------------------------------------------------------------------- C12
\* C12: the resume rule fired on a bot that is not silenced leaves it not
\* silenced and changes nothing of the gating state but the timeout, which
\* it clears; fired twice in a row it leaves what firing it once leaves.
C12_ResumeIdempotent ==
  /\ (last = "message" /\ "end_silence" \in Consulted) =>
       /\ ~bot.silent
       /\ bot.timeout = None
       /\ bot.startup = None
  /\ \A user \in {"Alice_Desktop", "Bob"} :
       LET once == end_silence(bot, [re |-> OkayExp], <<>>, user).self
           twice == end_silence(once, [re |-> OkayExp], <<>>, user).self
       IN /\ twice = once
          /\ once = [bot EXCEPT !.silent = FALSE, !.timeout = None]

\* "okay" heard by a bot that was not silenced but under a timeout
C12_Witness ==
  /\ Heard /\ "end_silence" \in Consulted
  /\ ~Was.silent /\ Was.timeout # None
  /\ ~bot.silent /\ bot.timeout = None

\* ---------------------------------------------------------------------- C13
\* C13: after every pass of the dispatcher that recorded a current message,
\* whichever way it left (reply, silenced, timeout, ignored sender, no
\* match), the text is in previous_message and current_message is cleared,
\* so between two events current_message is empty.
C13_Bookkeeping ==
  /\ (GroupStep /\ ~BeforeGraceEnd /\ Msg.decodable) =>
       /\ bot.curr_message \in {None, Some(<<>>)}
       /\ bot.prev_message = Some(MsgText)
  /\ last # "init" => bot.curr_message \in {None, Some(<<>>)}

\* ---------------------------------------------------------------------- C14
\* C14: a message from a sender in the ignore set is discarded before it is
\* recorded: nothing is sent and previous_message, current_message,
\* silenced and the timeout are what they were.
C14_IgnoredLeavesNoTrace ==
  (GroupStep /\ ~BeforeGraceEnd /\ Msg.decodable
     /\ LowerLine(Msg.from) \in Was.ignore_from) =>
    /\ sent = <<>>
    /\ bot.prev_message = Was.prev_message
    /\ bot.curr_message = Was.curr_message
    /\ bot.silent = Was.silent
    /\ bot.timeout = Was.timeout

\* ---------------------------------------------------------------------- C15
ThanksReply == <<"thanks, ", Lower(Msg.from[1])>>

\* C15 as stated: while Silenced only the quiet and okay rules fire and
\* reply; the timeout rule's reply is never sent and the timeout is never
\* newly set while silenced.
C15_AsStated ==
  (GroupStep /\ Was.silent) =>
    /\ Consulted \cap {"set_timeout", "me_responds"} = {}
    /\ sent \in {<<>>, <<SorryReply>>, <<ThanksReply>>}
    /\ bot.timeout \in {None, Was.timeout}

\* C15 amended: while Silenced only the three control rules quiet, okay and
\* timeout fire and reply, and no reply comes from a table; the timeout
\* rule can fire while silenced: it then sends its reply, sets the timeout
\* ten minutes ahead and leaves the bot silenced.
C15_SilencedControlOnly ==
  (GroupStep /\ Was.silent) =>
    /\ "me_responds" \notin Consulted
    /\ sent \in {<<>>, <<SorryReply>>, <<ThanksReply>>, <<HushReply>>}
    /\ bot.timeout \notin {None, Was.timeout} =>
         /\ "set_timeout" \in Consulted
         /\ sent = <<HushReply>>
         /\ bot.timeout = Some(now + TimeoutMinutes)
         /\ bot.silent
    /\ sent = <<HushReply>> => "set_timeout" \in Consulted

\* a silenced bot told to hush: it answers and sets a timeout
C15_Witness ==
  /\ GroupStep /\ Was.silent /\ Was.timeout = None
  /\ Msg.body = <<<<"hush", "zbot">>>>
  /\ sent = <<HushReply>>
  /\ bot.timeout = Some(now + TimeoutMinutes)
  /\ bot.silent

\* ---------------------------------------------------------------------- C16
\* the sender's display name: the identifier up to its first whitespace
DisplayName == Msg.from[1]

\* the template of the first me_responds entry whose expression is found in
\* the text, filled in with the display name
FirstEntryAnswer ==
  LET table == The(Was.me_responds)
      hits == {k \in DOMAIN table : Search(table[k].expression, MsgText, FALSE)}
      first == CHOOSE k \in hits : \A h \in hits : k <= h
  IN [i \in DOMAIN table[first].response |->
        IF table[first].response[i] = "{0}" THEN DisplayName
        ELSE table[first].response[i]]

\* C16: for an addressed message heard by a bot that is not silenced, the
\* rules are tried first and a rule's reply is the one sent, the table left
\* unread; when no rule matches, the me_responds table is scanned in order
\* and the template of the first matching entry is sent, filled in with the
\* sender's display name; when nothing matches nothing is sent.
C16_Precedence ==
  (HeardAddressed /\ ~Was.silent) =>
    IF MatchesQuiet THEN sent = <<SorryReply>> /\ "me_responds" \notin Consulted
    ELSE IF MatchesOkay
      THEN sent = <<ThanksReply>> /\ "me_responds" \notin Consulted
    ELSE IF MatchesTimeout
      THEN sent = <<HushReply>> /\ "me_responds" \notin Consulted
    ELSE /\ "me_responds" \in Consulted
         /\ sent = IF MatchesTable THEN <<FirstEntryAnswer>> ELSE <<>>

\* "Hello zbot" from "Bob Smith": both table entries match, the first one
\* answers, with the name cut at the blank
C16_Witness ==
  /\ HeardAddressed /\ ~Was.silent
  /\ Msg.from = <<"Bob", "Smith">>
  /\ Cardinality({k \in DOMAIN The(Was.me_responds) :
                    Search(The(Was.me_responds)[k].expression, MsgText, FALSE)}) = 2
  /\ sent = << <<"hi ", "Bob", "!">> >>

\* ---------------------------------------------------------------------- C17
\* C17: while a timeout still runs on a bot that is not silenced, an
\* addressed message is answered as it would be without the timeout, and
\* the timeout stays as it is unless the okay or the timeout rule fires; the
\* timeout rule fired then moves the expiry to ten minutes after the message.
C17_TimeoutKeepsAddressed ==
  (HeardAddressed /\ ~Was.silent /\ Was.timeout # None /\ now < The(Was.timeout)) =>
    /\ sent = handle_groupchat_message([Was EXCEPT !.timeout = None], Msg, now).sent
    /\ (MatchesTable /\ ~(MatchesQuiet \/ MatchesOkay \/ MatchesTimeout)) =>
         sent = <<FirstEntryAnswer>>
    /\ "set_timeout" \in Consulted => bot.timeout = Some(now + TimeoutMinutes)
    /\ Consulted \cap {"set_timeout", "end_silence"} = {} => bot.timeout = Was.timeout

\* the timeout command repeated while the timeout runs: the expiry moves
C17_Witness ==
  /\ HeardAddressed /\ ~Was.silent
  /\ Was.timeout # None /\ now < The(Was.timeout)
  /\ "set_timeout" \in Consulted
  /\ bot.timeout = Some(now + TimeoutMinutes)
  /\ bot.timeout # Was.timeout

\* ---------------------------------------------------------------------- C18
ControlHandlers == {"start_silence", "end_silence", "set_timeout"}

C18_WitnessQuiet ==
  /\ HeardAddressed
  /\ MatchesQuiet /\ MatchesOkay /\ MatchesTimeout
  /\ Was.timeout # None
  /\ Consulted \cap ControlHandlers = {"start_silence"}
  /\ bot.silent /\ bot.timeout = Was.timeout

\* ---------------------------------------------------------------------- C19
\* C19: over any step of the program, silenced turns true only when the
\* quiet handler is invoked and false only when the okay handler is; the
\* timeout is set only by the timeout handler, to ten minutes ahead, and is
\* unset only by the okay handler or by the expiry check of a message heard
\* by a bot that is not silenced; time going by changes neither.
C19_OnlyHandlersFlip ==
  pre # None =>
    /\ (~Was.silent /\ bot.silent) => "start_silence" \in Consulted
    /\ (Was.silent /\ ~bot.silent) => "end_silence" \in Consulted
    /\ bot.timeout \notin {None, Was.timeout} =>
         "set_timeout" \in Consulted /\ bot.timeout = Some(now + TimeoutMinutes)
    /\ (Was.timeout # None /\ bot.timeout = None) =>
         \/ "end_silence" \in Consulted
         \/ Heard /\ Expired /\ ~Was.silent /\ sent = <<>>
    /\ last # "message" => bot.silent = Was.silent /\ bot.timeout = Was.timeout

\* a silenced bot whose timeout has run out hears a message: it stays
\* silenced and sends nothing
C19_Witness ==
  /\ last = "message" /\ Heard
  /\ Was.silent /\ Expired
  /\ Consulted \cap ControlHandlers = {}
  /\ bot.silent /\ sent = <<>>

\* ---------------------------------------------------------------------- C20
\* C20: when the poll loop ends, by a disconnect or by an interrupt, the
\* next thing the program does is send the sign-off, once, and it does send
\* it; unless stop is set it then reconnects and restarts the startup
\* guard, then restarts the guard again and reloads both tables, and only
\* then polls again.
C20_ExitOrder ==
  /\ [][/\ (last' \in {"disconnect", "interrupt"}) => (pc = "poll" /\ pc' = "signoff")
        /\ (pc = "signoff" /\ last' # "tick") =>
             /\ last' = "signoff"
             /\ sent' = <<sign_off>>
             /\ pc' = IF bot.stop THEN "done" ELSE "reconnect"
        /\ last' = "signoff" => pc = "signoff"
        /\ (pc = "reconnect" /\ last' # "tick") =>
             /\ last' = "reconnect"
             /\ bot'.startup = Some(now + GraceMinutes)
             /\ sent' = <<>>
             /\ pc' = "load"
        /\ (pc = "load" /\ last' # "tick") =>
             /\ last' = "load"
             /\ bot'.startup = Some(now + GraceMinutes)
             /\ bot'.me_responds = Some(MeRespondsFile)
             /\ bot'.chat_responds = Some(GenericRespondsFile)
             /\ pc' = "poll"
        /\ last' = "tick" => pc' = pc
        /\ pc' = "reconnect" => ~bot.stop /\ ~bot'.stop
        /\ (pc = "signoff" /\ pc' = "done") => bot.stop
       ]_vars
  /\ (pc = "signoff") ~> (last = "signoff")

\* the tables reloaded after a reconnect, by a bot that had been silenced
C20_Witness ==
  /\ last = "load" /\ pc = "poll"
  /\ Was.startup = Some(now + GraceMinutes)
  /\ bot.silent
  /\ bot.me_responds = Some(MeRespondsFile)

====
